---- MODULE Spec2Model ----
(***************************************************************************)
(* Booking-System: the availability computation (GET /bookings/availability)*)
(* and the booking commit (POST /bookings) of the bookings router, with the *)
(* admin route that creates availability slots, over the Booking,          *)
(* AvailabilitySlot and Service tables.                                    *)
(*                                                                         *)
(* Time.  An instant (a JS Date, a luxon DateTime's timestamp) is a number *)
(* of minutes since 2026-01-01T00:00Z minus one day (day index 1 is         *)
(* January 1st).  A luxon DateTime in zone Europe/Oslo is represented by   *)
(* its instant; its local fields are derived with the zone's offset, which *)
(* is +60 until 2026-03-29T01:00Z and +120 after (start of summer time).   *)
(***************************************************************************)
EXTENDS Integers, Sequences, FiniteSets, TLC

\* ------------------------------------------------------------ constants

SESSION_MIN == 15
BUFFER_MIN == 5
STEP_MIN == SESSION_MIN + BUFFER_MIN
DAY_START == [hour |-> 8, minute |-> 0]
DAY_END == [hour |-> 15, minute |-> 0]
MAX_SESSIONS == 30

MinPerDay == 24 * 60

\* ------------------------------------------------------------ calendar (luxon)

DaysInMonth(m) ==
    IF m = 2 THEN 28 ELSE IF m \in {4, 6, 9, 11} THEN 30 ELSE 31

RECURSIVE DaysBefore(_)
DaysBefore(m) == IF m <= 1 THEN 0 ELSE DaysBefore(m - 1) + DaysInMonth(m - 1)

\* Day index of a valid calendar date <<month, day>> of 2026.
DayIndex(date) == DaysBefore(date[1]) + date[2]

\* Local minutes (since local midnight of day index 0) of a calendar date and
\* a time of day <<hour, minute>>.
LocalMinutes(date, time) == DayIndex(date) * MinPerDay + time[1] * 60 + time[2]

\* Europe/Oslo, 2026: summer time starts on March 29th, 02:00 local = 01:00Z.
DstStartUtc == LocalMinutes(<<3, 29>>, <<1, 0>>)
DstStartLocal == LocalMinutes(<<3, 29>>, <<3, 0>>)

OffsetAt(ts) == IF ts >= DstStartUtc THEN 120 ELSE 60
OffsetOfLocal(l) == IF l >= DstStartLocal THEN 120 ELSE 60

\* DateTime.fromObject({...}, {zone}) for local fields that are in range.
FromLocal(l) == l - OffsetOfLocal(l)
\* The local fields of a DateTime, as local minutes.
ToLocal(ts) == ts + OffsetAt(ts)

\* dt.set({hour, minute}): same local calendar date, the given time of day.
SetTime(dt, hm) ==
    FromLocal((ToLocal(dt) \div MinPerDay) * MinPerDay + hm.hour * 60 + hm.minute)

\* dt.plus({minutes: k})
Plus(dt, k) == dt + k

\* toFormat("HH:00"): the hour alone, the minute dropped.
ToFormatHHmm_HourOnly(dt) == <<(ToLocal(dt) % MinPerDay) \div 60, 0>>

\* toFormat("HH:mm") of the instant read in UTC in place of Europe/Oslo.
ToFormatHHmm_Utc(dt) == <<(dt % MinPerDay) \div 60, dt % 60>>

\* t.toFormat("HH:mm") as <<hour, minute>>
ToFormatHHmm(dt) == <<(ToLocal(dt) % MinPerDay) \div 60, ToLocal(dt) % 60>>

\* JavaScript's %: the result takes the sign of the dividend.
JsMod(a, b) == IF a >= 0 THEN a % b ELSE 0 - ((0 - a) % b)

\* DateTime.isValid of parseOsloDateTime(date, time): luxon rejects a month
\* outside 1..12, a day outside the month, an hour outside 0..23 (24:00 is
\* accepted as the next midnight) and a minute outside 0..59.
IsValidDateTime(date, time) ==
    /\ date[1] \in 1..12
    /\ date[2] \in 1..DaysInMonth(date[1])
    /\ \/ time[1] \in 0..23 /\ time[2] \in 0..59
       \/ time[1] = 24 /\ time[2] = 0

parseOsloDateTime(date, time) == FromLocal(LocalMinutes(date, time))

\* ------------------------------------------------------------ grid and hours

\* isAlignedToStep without the test diffMin >= 0.
isAlignedToStep_NoSign(dt) ==
    LET dayStart == SetTime(dt, DAY_START)
        diffMin == dt - dayStart
    IN JsMod(diffMin, STEP_MIN) = 0

\* diffMin = Math.round(dt.diff(dayStart, "minutes").minutes): instants are
\* whole minutes here (parseOsloDateTime takes HH:mm), so the difference is
\* integral and Math.round returns it unchanged.
isAlignedToStep(dt) ==
    LET dayStart == SetTime(dt, DAY_START)
        diffMin == dt - dayStart
    IN diffMin >= 0 /\ JsMod(diffMin, STEP_MIN) = 0

\* validateWithinBusinessHours with lastEnd >= dayEnd in place of lastEnd > dayEnd.
validateWithinBusinessHours_Ge(start, sessions) ==
    LET dayStart == SetTime(start, DAY_START)
        dayEnd == SetTime(start, DAY_END)
        lastStart == Plus(start, (sessions - 1) * STEP_MIN)
        lastEnd == Plus(lastStart, SESSION_MIN)
    IN IF start < dayStart THEN "BeforeOpening"
       ELSE IF lastEnd >= dayEnd THEN "ExceedsClosing"
       ELSE "ok"

\* The opening check on the first start, the closing check on the last end.
validateWithinBusinessHours(start, sessions) ==
    LET dayStart == SetTime(start, DAY_START)
        dayEnd == SetTime(start, DAY_END)
        lastStart == Plus(start, (sessions - 1) * STEP_MIN)
        lastEnd == Plus(lastStart, SESSION_MIN)
    IN IF start < dayStart THEN "BeforeOpening"
       ELSE IF lastEnd > dayEnd THEN "ExceedsClosing"
       ELSE "ok"

\* The session starts as instants, in order.
buildSessionStartsUtc(startOslo, sessions) ==
    [i \in 1..sessions |-> Plus(startOslo, (i - 1) * STEP_MIN)]

\* Coverage by the union of the slots: one slot holds the start, one the end.
isSessionCoveredBySlots_Union(startAt, endAt, slotRows) ==
    /\ \E s \in slotRows : s.startAt <= startAt /\ s.endAt >= startAt
    /\ \E s \in slotRows : s.startAt <= endAt /\ s.endAt >= endAt

isSessionCoveredBySlots(startAt, endAt, slotRows) ==
    \E s \in slotRows : s.startAt <= startAt /\ s.endAt >= endAt

\* ------------------------------------------------------------ state

VARIABLES
    now,        \* the clock: the instant DateTime.now() returns
    services,   \* Service table: id -> [isActive, durationMin]
    slots,      \* AvailabilitySlot table: rows [id, serviceId, startAt, endAt]
    bookings,   \* Booking table, committed rows
    req,        \* POST /bookings requests in flight or answered
    av,         \* GET /bookings/availability calls in flight or answered
    started,    \* number of POST /bookings requests received so far
    offer,      \* the last availability answer and its clock, while no write has followed it
    probe       \* argument and results of the pure validators

vars == <<now, services, slots, bookings, req, av, started, offer, probe>>

\* ------------------------------------------------------------ bounds and inputs

MaxConc == 2        \* POST /bookings requests handled concurrently
MaxSeq == 2         \* POST /bookings requests per behaviour, one after the other
MaxSlots == 2       \* AvailabilitySlot rows
MaxCancel == 1      \* bookings cancelled

ReqIds == 1..MaxConc

MAR28 == <<3, 28>>
MAR29 == <<3, 29>>
FEB30 == <<2, 30>>

At(date, hh, mm) == FromLocal(LocalMinutes(date, <<hh, mm>>))

\* The instants the clock takes, in order.
ClockValues == <<At(MAR28, 7, 0), At(MAR28, 8, 10), At(MAR29, 8, 10)>>

\* The service rows: the seeded service, a second one like it, one created
\* with the admin route's default duration, and a deactivated one.
SeedServices ==
    [id \in {"singing-15", "piano-15", "hour-60", "closed-15"} |->
        [isActive |-> id # "closed-15",
         durationMin |-> IF id = "hour-60" THEN 60 ELSE SESSION_MIN]]

NoRows == {}
NoSeq == <<>>

NoOffer == [fresh |-> FALSE, serviceId |-> "", date |-> <<0, 0>>, times |-> NoSeq, at |-> 0]

IdleReq ==
    [pc |-> "idle", gen |-> 0, serviceId |-> "", userId |-> "", date |-> <<0, 0>>,
     time |-> <<0, 0>>, sessions |-> 0, startOslo |-> 0, startsUtc |-> NoSeq,
     nowRead |-> 0, conflicts |-> NoRows,
     pending |-> NoRows, count |-> 0, bookingsOut |-> NoSeq, raised |-> "",
     offer |-> NoOffer, outcome |-> ""]

IdleAv ==
    [pc |-> "idle", serviceId |-> "", date |-> <<0, 0>>, dayStartUtc |-> 0,
     dayEndUtc |-> 0, slotRows |-> NoRows, booked |-> NoRows, times |-> NoSeq,
     stale |-> FALSE, outcome |-> ""]

NoProbe ==
    [local |-> 0, dt |-> 0, sessions |-> 0, applied |-> FALSE, aligned |-> FALSE, hours |-> ""]

InitDb ==
    /\ now = ClockValues[1]
    /\ services = SeedServices
    /\ slots = NoRows
    /\ bookings = NoRows
    /\ req = [r \in ReqIds |-> IdleReq]
    /\ av = IdleAv
    /\ started = 0
    /\ offer = NoOffer

Init == InitDb /\ probe = NoProbe

InFlight(p) == p.pc \notin {"idle", "done"}
Quiet == (\A r \in ReqIds : req[r].pc = "idle") /\ av.pc = "idle"

\* A write to the tables: the last availability answer is no longer current,
\* and neither is the answer of a call that has already read.
Touched(a) == IF InFlight(a) THEN [a EXCEPT !.stale = TRUE] ELSE a

\* ------------------------------------------------------------ environment

\* The clock advances to a later instant.
Tick ==
    /\ \E i \in 1..Len(ClockValues) : ClockValues[i] > now /\ now' = ClockValues[i]
    /\ UNCHANGED <<services, slots, bookings, req, av, started, offer, probe>>

\* POST /admin/slots: startAt must be before endAt and the service must exist.
CreateSlot(serviceId, startAt, endAt) ==
    /\ Cardinality(slots) < MaxSlots
    /\ startAt < endAt
    /\ serviceId \in DOMAIN services
    /\ slots' = slots \cup {[id |-> 1 + Cardinality({s \in slots : s.serviceId = serviceId
                                                       /\ s.startAt = startAt /\ s.endAt = endAt}),
                             serviceId |-> serviceId, startAt |-> startAt, endAt |-> endAt]}
    /\ offer' = NoOffer
    /\ av' = Touched(av)
    /\ UNCHANGED <<now, services, bookings, req, started, probe>>

\* The cancellation path outside the booking core: a stored booking that is
\* not cancelled becomes CANCELLED; the row stays.
CancelBooking(b) ==
    /\ b \in bookings
    /\ b.status # "CANCELLED"
    /\ bookings' = (bookings \ {b}) \cup {[b EXCEPT !.status = "CANCELLED"]}
    /\ offer' = NoOffer
    /\ av' = Touched(av)
    /\ UNCHANGED <<now, services, slots, req, started, probe>>

\* ------------------------------------------------------------ POST /bookings

Range(f) == {f[i] : i \in DOMAIN f}

\* ValidateStart with the past check moved before the grid check.
ValidateStart_PastFirst(date, time, sessions, nowv) ==
    IF ~IsValidDateTime(date, time) THEN "InvalidInput"
    ELSE LET startOslo == parseOsloDateTime(date, time)
             hoursCheck == validateWithinBusinessHours(startOslo, sessions)
         IN IF startOslo < nowv THEN "InThePast"
            ELSE IF ~isAlignedToStep(startOslo) THEN "NotOnGrid"
            ELSE IF hoursCheck # "ok" THEN hoursCheck
            ELSE "pass"

\* ValidateStart with the opening-hours check moved before the grid check.
ValidateStart_HoursFirst(date, time, sessions, nowv) ==
    IF ~IsValidDateTime(date, time) THEN "InvalidInput"
    ELSE LET startOslo == parseOsloDateTime(date, time)
             hoursCheck == validateWithinBusinessHours(startOslo, sessions)
         IN IF hoursCheck # "ok" THEN hoursCheck
            ELSE IF ~isAlignedToStep(startOslo) THEN "NotOnGrid"
            ELSE IF startOslo < nowv THEN "InThePast"
            ELSE "pass"

\* Parse, grid, opening hours and the past check, in the handler's order;
\* "pass" when none fails.
ValidateStart(date, time, sessions, nowv) ==
    IF ~IsValidDateTime(date, time) THEN "InvalidInput"
    ELSE LET startOslo == parseOsloDateTime(date, time)
             hoursCheck == validateWithinBusinessHours(startOslo, sessions)
         IN IF ~isAlignedToStep(startOslo) THEN "NotOnGrid"
            ELSE IF hoursCheck # "ok" THEN hoursCheck
            ELSE IF startOslo < nowv THEN "InThePast"
            ELSE "pass"

\* The service checks without the test of the session length.
CheckService_AnyDuration(table, serviceId) ==
    IF serviceId \notin DOMAIN table \/ ~table[serviceId].isActive THEN "ServiceNotFound"
    ELSE "pass"

\* The service checks: missing or inactive, then the fixed session length.
CheckService(table, serviceId) ==
    IF serviceId \notin DOMAIN table \/ ~table[serviceId].isActive THEN "ServiceNotFound"
    ELSE IF table[serviceId].durationMin # SESSION_MIN THEN "UnsupportedService"
    ELSE "pass"

\* The rows lying wholly inside [from, to] in place of those overlapping it.
SlotsOverlapping_Inside(rows, serviceId, from, to) ==
    {s \in rows : s.serviceId = serviceId /\ s.startAt >= from /\ s.endAt <= to}

\* availabilitySlot.findMany: the service's rows overlapping (from, to).
SlotsOverlapping(rows, serviceId, from, to) ==
    {s \in rows : s.serviceId = serviceId /\ s.startAt < to /\ s.endAt > from}

\* The first session start, in order, that no fetched slot covers; 0 if none.
RECURSIVE FirstUncovered(_, _)
FirstUncovered(starts, slotRows) ==
    IF starts = <<>> THEN 0
    ELSE IF ~isSessionCoveredBySlots(Head(starts), Head(starts) + SESSION_MIN, slotRows)
         THEN Head(starts)
         ELSE FirstUncovered(Tail(starts), slotRows)

\* The re-check without the filter on the service.
ConflictsIn_AnyService(rows, serviceId, starts) ==
    {b \in rows : b.status # "CANCELLED" /\ b.startAt \in Range(starts)}

\* The re-check without the filter on the status.
ConflictsIn_AnyStatus(rows, serviceId, starts) ==
    {b \in rows : b.serviceId = serviceId /\ b.startAt \in Range(starts)}

\* tx.booking.findMany of the re-check: rows of the service, not cancelled,
\* starting at one of the requested instants.
ConflictsIn(rows, serviceId, starts) ==
    {b \in rows : b.serviceId = serviceId /\ b.status # "CANCELLED" /\ b.startAt \in Range(starts)}

\* Rows whose end is a whole grid step after their start.
BuildRows_EndAtStep(gen, userId, serviceId, starts) ==
    {[id |-> <<gen, i>>, userId |-> userId, serviceId |-> serviceId, startAt |-> starts[i],
      endAt |-> starts[i] + STEP_MIN, status |-> "CONFIRMED"] : i \in DOMAIN starts}

\* The rows createMany is given, one per session start.
BuildRows(gen, userId, serviceId, starts) ==
    {[id |-> <<gen, i>>, userId |-> userId, serviceId |-> serviceId, startAt |-> starts[i],
      endAt |-> starts[i] + SESSION_MIN, status |-> "CONFIRMED"] : i \in DOMAIN starts}

\* tx.booking.findMany after createMany: rows of the user and service starting
\* at one of the requested instants, as the transaction sees them.
ReadBack(rows, userId, serviceId, starts) ==
    {b \in rows : b.userId = userId /\ b.serviceId = serviceId /\ b.startAt \in Range(starts)}

\* The orders "orderBy startAt asc" can deliver a set of rows in.
OrderedByStart(rows) ==
    {s \in [1..Cardinality(rows) -> rows] :
        /\ \A i, j \in DOMAIN s : i # j => s[i] # s[j]
        /\ \A i, j \in DOMAIN s : i < j => s[i].startAt <= s[j].startAt}

\* The handler without the slots query and the coverage loop.
CoveredBySlots_Skipped(table, serviceId, starts) == TRUE

\* The slots query and the coverage loop: every session is inside one slot.
CoveredBySlots(table, serviceId, starts) ==
    LET firstStartUtc == starts[1]
        lastEndUtc == starts[Len(starts)] + SESSION_MIN
        candidateSlots == SlotsOverlapping(table, serviceId, firstStartUtc, lastEndUtc)
    IN FirstUncovered(starts, candidateSlots) = 0

\* The request is received and runs up to the transaction: parse, grid,
\* opening hours, past check, service checks, session starts, slots query and
\* coverage.  The steps before the slots query read no table that changes
\* (no route updates or deletes a Service), so the whole is taken at the slots query.
ReceiveBooking(r, inp, limit) ==
    /\ started < limit
    /\ req[r].pc = "idle"
    /\ \A q \in ReqIds : q < r => req[q].pc # "idle"
    /\ LET v == ValidateStart(inp.date, inp.time, inp.sessions, now)
           startOslo == IF v = "InvalidInput" THEN 0 ELSE parseOsloDateTime(inp.date, inp.time)
           sv == IF v = "pass" THEN CheckService(services, inp.serviceId) ELSE v
           startsUtc == IF sv = "pass" THEN buildSessionStartsUtc(startOslo, inp.sessions)
                        ELSE NoSeq
           outcome == IF sv # "pass" THEN sv
                      ELSE IF CoveredBySlots(slots, inp.serviceId, startsUtc) THEN ""
                      ELSE "NotWithinAvailability"
       IN req' = [req EXCEPT ![r] =
                    [IdleReq EXCEPT !.pc = IF outcome = "" THEN "txCheck" ELSE "done",
                                    !.gen = started + 1,
                                    !.serviceId = inp.serviceId, !.userId = inp.userId,
                                    !.date = inp.date, !.time = inp.time,
                                    !.sessions = inp.sessions,
                                    !.startOslo = startOslo, !.nowRead = now,
                                    !.startsUtc = startsUtc,
                                    !.offer = IF offer.fresh /\ offer.serviceId = inp.serviceId
                                                 /\ offer.date = inp.date
                                              THEN offer ELSE NoOffer,
                                    !.outcome = outcome]]
    /\ started' = started + 1
    /\ UNCHANGED <<now, services, slots, bookings, av, offer, probe>>

\* createMany outside a transaction: the rows are visible at once.
VisibleAfterInsert_NoTx(table, rows) == table \cup rows

\* What the other connections see of the table once createMany has run in
\* the transaction: the rows stay private to the transaction until it commits.
VisibleAfterInsert(table, rows) == table

\* In the transaction: the conflict re-check, which reads the committed rows,
\* and, when it finds none, createMany.  No index on Booking rejects the rows.
TxCheckInsert(r) ==
    /\ req[r].pc = "txCheck"
    /\ LET conflicts == ConflictsIn(bookings, req[r].serviceId, req[r].startsUtc)
           rows == BuildRows(req[r].gen, req[r].userId, req[r].serviceId, req[r].startsUtc)
       IN IF conflicts # {}
          THEN /\ req' = [req EXCEPT ![r].pc = "done", ![r].outcome = "Conflict",
                                     ![r].conflicts = conflicts]
               /\ bookings' = bookings
          ELSE /\ req' = [req EXCEPT ![r].pc = "txReadBack",
                                     ![r].pending = rows,
                                     ![r].count = Cardinality(rows)]
               /\ bookings' = VisibleAfterInsert(bookings, rows)
    /\ UNCHANGED <<now, services, slots, av, started, offer, probe>>

\* In the transaction: the re-check finds no conflict and createMany throws
\* (the storage layer reports a unique constraint violation, Prisma code
\* P2002).  The transaction rolls back and the handler's catch answers 500
\* "Server error".
TxInsertRaises(r) ==
    /\ req[r].pc = "txCheck"
    /\ ConflictsIn(bookings, req[r].serviceId, req[r].startsUtc) = {}
    /\ req' = [req EXCEPT ![r].pc = "done", ![r].raised = "P2002",
                          ![r].pending = NoRows, ![r].outcome = "ServerError"]
    /\ UNCHANGED <<now, services, slots, bookings, av, started, offer, probe>>

\* In the transaction: the created rows are fetched back.
TxReadBack(r) ==
    /\ req[r].pc = "txReadBack"
    /\ \E out \in OrderedByStart(ReadBack(bookings \cup req[r].pending, req[r].userId,
                                          req[r].serviceId, req[r].startsUtc)) :
          req' = [req EXCEPT ![r].pc = "txCommit", ![r].bookingsOut = out]
    /\ UNCHANGED <<now, services, slots, bookings, av, started, offer, probe>>

\* A commit that replaces the table by the transaction's rows.
CommittedRows_Replace(table, pending) == pending

\* The table once the transaction has committed.
CommittedRows(table, pending) == table \cup pending

\* The transaction commits and the handler answers 201.
TxCommit(r) ==
    /\ req[r].pc = "txCommit"
    /\ bookings' = CommittedRows(bookings, req[r].pending)
    /\ req' = [req EXCEPT ![r].pc = "done", ![r].outcome = "Ok"]
    /\ offer' = NoOffer
    /\ av' = Touched(av)
    /\ UNCHANGED <<now, services, slots, started, probe>>

\* res.status(...).json(...): the answer is sent and the request is over.
Respond(r) ==
    /\ req[r].pc = "done"
    /\ req' = [req EXCEPT ![r] = IdleReq]
    /\ UNCHANGED <<now, services, slots, bookings, av, started, offer, probe>>

\* ------------------------------------------------------------ GET /bookings/availability

\* booking.findMany with startAt > from in place of startAt >= from.
BookedStarts_After(rows, serviceId, from, to) ==
    {b.startAt : b \in {x \in rows : x.serviceId = serviceId /\ x.status # "CANCELLED"
                                      /\ x.startAt > from /\ x.startAt < to}}

\* booking.findMany of the availability route: the start instants of the
\* service's rows that are not cancelled and start within [from, to).
BookedStarts(rows, serviceId, from, to) ==
    {b.startAt : b \in {x \in rows : x.serviceId = serviceId /\ x.status # "CANCELLED"
                                      /\ x.startAt >= from /\ x.startAt < to}}

\* Coverage with s.endAt > endUtc in place of s.endAt >= endUtc.
CandidateCovered_Strict(slotRows, startUtc, endUtc) ==
    \E s \in slotRows : s.startAt <= startUtc /\ s.endAt > endUtc

\* Coverage of one candidate by the fetched slots.
CandidateCovered(slotRows, startUtc, endUtc) ==
    \E s \in slotRows : s.startAt <= startUtc /\ s.endAt >= endUtc

\* The loop over the grid: for (t = dayStartOslo; t < dayEndOslo; t += STEP_MIN).
RECURSIVE GridWalk(_, _, _, _)
GridWalk(t, dayEndOslo, slotRows, bookedSet) ==
    IF ~(t < dayEndOslo) THEN <<>>
    ELSE LET startUtc == t
             endUtc == startUtc + SESSION_MIN
             rest == GridWalk(Plus(t, STEP_MIN), dayEndOslo, slotRows, bookedSet)
         IN IF ~CandidateCovered(slotRows, startUtc, endUtc) THEN rest
            ELSE IF startUtc \in bookedSet THEN rest
            ELSE <<ToFormatHHmm(t)>> \o rest

\* A date string that matches the pattern but names no calendar date gives an
\* invalid DateTime, whose JS Date the slot query rejects.
IsValidDate(date) == date[1] \in 1..12 /\ date[2] \in 1..DaysInMonth(date[1])

\* The call is received; the service is loaded and checked; the day bounds
\* are computed.
ReceiveAvailability(serviceId, date) ==
    /\ av.pc = "idle"
    /\ LET v == CheckService(services, serviceId)
           ok == v = "pass" /\ IsValidDate(date)
       IN av' = [IdleAv EXCEPT !.pc = IF ok THEN "loadSlots" ELSE "done",
                                  !.serviceId = serviceId, !.date = date,
                                  !.dayStartUtc = IF ok THEN At(date, DAY_START.hour, DAY_START.minute) ELSE 0,
                                  !.dayEndUtc = IF ok THEN At(date, DAY_END.hour, DAY_END.minute) ELSE 0,
                                  !.outcome = IF v # "pass" THEN v
                                              ELSE IF ok THEN "" ELSE "Unhandled"]
    /\ UNCHANGED <<now, services, slots, bookings, req, started, offer, probe>>

\* availabilitySlot.findMany for the day.
AvailLoadSlots ==
    /\ av.pc = "loadSlots"
    /\ av' = [av EXCEPT !.pc = "loadBooked",
                        !.slotRows = SlotsOverlapping(slots, av.serviceId,
                                                         av.dayStartUtc, av.dayEndUtc)]
    /\ UNCHANGED <<now, services, slots, bookings, req, started, offer, probe>>

\* An answer that also deletes the cancelled bookings it skipped.
AvailLoadBooked_Purge ==
    /\ av.pc = "loadBooked"
    /\ LET booked == BookedStarts(bookings, av.serviceId, av.dayStartUtc, av.dayEndUtc)
           times == GridWalk(av.dayStartUtc, av.dayEndUtc, av.slotRows, booked)
       IN /\ av' = [av EXCEPT !.pc = "done",
                              !.booked = booked, !.times = times,
                              !.outcome = "Ok"]
          /\ offer' = IF av.stale THEN NoOffer
                      ELSE [fresh |-> TRUE, serviceId |-> av.serviceId,
                            date |-> av.date, times |-> times, at |-> now]
    /\ bookings' = {b \in bookings : b.status # "CANCELLED"}
    /\ UNCHANGED <<now, services, slots, req, started, probe>>

\* An answer that leaves out the times already past on the clock.
AvailLoadBooked_HidePast ==
    /\ av.pc = "loadBooked"
    /\ LET booked == BookedStarts(bookings, av.serviceId, av.dayStartUtc, av.dayEndUtc)
           times == SelectSeq(GridWalk(av.dayStartUtc, av.dayEndUtc, av.slotRows, booked),
                              LAMBDA t : At(av.date, t[1], t[2]) >= now)
       IN /\ av' = [av EXCEPT !.pc = "done",
                              !.booked = booked, !.times = times,
                              !.outcome = "Ok"]
          /\ offer' = IF av.stale THEN NoOffer
                      ELSE [fresh |-> TRUE, serviceId |-> av.serviceId,
                            date |-> av.date, times |-> times, at |-> now]
    /\ UNCHANGED <<now, services, slots, bookings, req, started, probe>>

\* booking.findMany for the day, the walk over the grid, and the answer.
AvailLoadBooked ==
    /\ av.pc = "loadBooked"
    /\ LET booked == BookedStarts(bookings, av.serviceId, av.dayStartUtc, av.dayEndUtc)
           times == GridWalk(av.dayStartUtc, av.dayEndUtc, av.slotRows, booked)
       IN /\ av' = [av EXCEPT !.pc = "done",
                              !.booked = booked, !.times = times,
                              !.outcome = "Ok"]
          /\ offer' = IF av.stale THEN NoOffer
                      ELSE [fresh |-> TRUE, serviceId |-> av.serviceId,
                            date |-> av.date, times |-> times, at |-> now]
    /\ UNCHANGED <<now, services, slots, bookings, req, started, probe>>

\* res.json({serviceId, date, times}), or the error answer, is sent.
RespondAvailability ==
    /\ av.pc = "done"
    /\ av' = IdleAv
    /\ UNCHANGED <<now, services, slots, bookings, req, started, offer, probe>>

\* ------------------------------------------------------------ the validators alone

\* Local date-times that exist: every minute of March 28th and 29th but the
\* hour skipped when summer time starts.
ProbeLocals ==
    {l \in LocalMinutes(MAR28, <<0, 0>>)..(LocalMinutes(MAR29, <<23, 59>>)) :
        l < DstStartLocal - 60 \/ l >= DstStartLocal}

InitPure ==
    /\ InitDb
    /\ probe \in {[NoProbe EXCEPT !.local = l, !.dt = FromLocal(l), !.sessions = n] :
                     l \in ProbeLocals, n \in 1..MAX_SESSIONS}

ApplyValidators ==
    /\ ~probe.applied
    /\ probe' = [probe EXCEPT !.applied = TRUE,
                              !.aligned = isAlignedToStep(probe.dt),
                              !.hours = validateWithinBusinessHours(probe.dt, probe.sessions)]
    /\ UNCHANGED <<now, services, slots, bookings, req, av, started, offer>>

NextPure == ApplyValidators

SpecPure == InitPure /\ [][NextPure]_vars

\* ------------------------------------------------------------ concurrent requests

BookingInput(serviceId, userId, date, time, sessions) ==
    [serviceId |-> serviceId, userId |-> userId, date |-> date, time |-> time,
     sessions |-> sessions]

ConcInputs ==
    {BookingInput("singing-15", "u1", MAR28, <<8, 0>>, 1),
     BookingInput("singing-15", "u1", MAR28, <<8, 0>>, 2),
     BookingInput("singing-15", "u1", MAR28, <<8, 20>>, 1),
     BookingInput("piano-15", "u1", MAR28, <<8, 0>>, 1)}

ConcSlotChoices ==
    [serviceId : {"singing-15", "piano-15"}, startAt : {At(MAR28, 8, 0)},
     endAt : {At(MAR28, 9, 0)}]

\* The admin creates each window of the choice once.
NotYetCreated(c) ==
    \A w \in slots : ~(w.serviceId = c.serviceId /\ w.startAt = c.startAt /\ w.endAt = c.endAt)

AdminCreateSlot ==
    \E c \in ConcSlotChoices : NotYetCreated(c) /\ CreateSlot(c.serviceId, c.startAt, c.endAt)
Cancelled == {b \in bookings : b.status = "CANCELLED"}
Cancellation == Cardinality(Cancelled) < MaxCancel /\ \E b \in bookings : CancelBooking(b)
PostBooking == \E r \in ReqIds, inp \in ConcInputs : ReceiveBooking(r, inp, MaxConc)
BookingTxCheckInsert == \E r \in ReqIds : TxCheckInsert(r)
BookingTxInsertRaises == \E r \in ReqIds : TxInsertRaises(r)
BookingTxReadBack == \E r \in ReqIds : TxReadBack(r)
BookingTxCommit == \E r \in ReqIds : TxCommit(r)

Next ==
    \/ AdminCreateSlot
    \/ Cancellation
    \/ PostBooking
    \/ BookingTxCheckInsert
    \/ BookingTxInsertRaises
    \/ BookingTxReadBack
    \/ BookingTxCommit

Spec == Init /\ [][Next]_vars

\* ------------------------------------------------------------ one request at a time

SeqInputs ==
    [serviceId : {"singing-15"}, userId : {"u1"}, date : {MAR28, MAR29},
     time : {<<7, 40>>, <<8, 0>>, <<8, 10>>, <<8, 20>>, <<14, 40>>, <<25, 0>>},
     sessions : {1, 2}]
    \cup [serviceId : {"singing-15", "missing"}, userId : {"u1"}, date : {FEB30},
          time : {<<8, 0>>, <<25, 0>>}, sessions : {1}]
    \cup [serviceId : {"missing"}, userId : {"u1"}, date : {MAR28},
          time : {<<7, 40>>, <<8, 0>>, <<8, 10>>, <<25, 0>>}, sessions : {1}]
    \cup [serviceId : {"hour-60", "closed-15"}, userId : {"u1"}, date : {MAR28},
          time : {<<7, 40>>, <<8, 0>>}, sessions : {1}]
    \cup [serviceId : {"singing-15"}, userId : {"u2"}, date : {MAR28},
          time : {<<8, 0>>, <<8, 20>>}, sessions : {1, 2}]

SeqSlotChoices ==
    {[serviceId |-> "singing-15", startAt |-> At(MAR28, 8, 0), endAt |-> At(MAR28, 8, 15)],
     [serviceId |-> "singing-15", startAt |-> At(MAR28, 8, 20), endAt |-> At(MAR28, 8, 40)],
     [serviceId |-> "singing-15", startAt |-> At(MAR29, 14, 0), endAt |-> At(MAR29, 15, 0)]}

SeqAvailInputs ==
    ({"singing-15"} \X {MAR28, MAR29, FEB30})
    \cup ({"hour-60", "closed-15", "missing"} \X {MAR28})

BookingRespond == \E r \in ReqIds : Respond(r)
SeqTick == Quiet /\ Tick
SeqCreateSlot ==
    /\ Quiet
    /\ \E c \in SeqSlotChoices : NotYetCreated(c) /\ CreateSlot(c.serviceId, c.startAt, c.endAt)
SeqCancellation ==
    Quiet /\ Cardinality(Cancelled) < MaxCancel /\ \E b \in bookings : CancelBooking(b)
SeqPostBooking == Quiet /\ \E inp \in SeqInputs : ReceiveBooking(1, inp, MaxSeq)
SeqGetAvailability == Quiet /\ \E i \in SeqAvailInputs : ReceiveAvailability(i[1], i[2])

NextSeq ==
    \/ SeqTick
    \/ SeqCreateSlot
    \/ SeqCancellation
    \/ SeqPostBooking
    \/ BookingTxCheckInsert
    \/ BookingTxInsertRaises
    \/ BookingTxReadBack
    \/ BookingTxCommit
    \/ BookingRespond
    \/ SeqGetAvailability
    \/ AvailLoadSlots
    \/ AvailLoadBooked
    \/ RespondAvailability

SpecSeq == Init /\ [][NextSeq]_vars

\* ------------------------------------------------------------ properties

\* The time of day of a local date-time, in minutes since local midnight.
TimeOfDay(l) == l % MinPerDay
OpensAt == DAY_START.hour * 60 + DAY_START.minute
ClosesAt == DAY_END.hour * 60 + DAY_END.minute

\* C8: validateWithinBusinessHours succeeds exactly when the start is at or
\* after 08:00 and start + (N-1)*20 + 15 minutes is at or before 15:00 of the
\* same date; a last session ending exactly at 15:00 is accepted.
C8_FitsBusinessHoursIff ==
    probe.applied =>
        (probe.hours = "ok" <=>
            /\ TimeOfDay(probe.local) >= OpensAt
            /\ TimeOfDay(probe.local) + (probe.sessions - 1) * 20 + 15 <= ClosesAt)

C8_Witness ==
    /\ probe.applied
    /\ probe.hours = "ok"
    /\ probe.sessions > 1
    /\ TimeOfDay(probe.local) + (probe.sessions - 1) * 20 + 15 = ClosesAt

\* C9: isAlignedToStep is true exactly when the minutes elapsed since 08:00 of
\* the same calendar date are non-negative and an exact multiple of 20.
C9_OnGridIff ==
    probe.applied =>
        (probe.aligned <=>
            LET elapsed == TimeOfDay(probe.local) - OpensAt
            IN elapsed >= 0 /\ elapsed % 20 = 0)

C9_Witness ==
    /\ probe.applied
    /\ probe.aligned
    /\ probe.local = LocalMinutes(MAR29, <<14, 40>>)

\* The rows of the table a request has created.
RowsOf(r) == {b \in bookings : b.id[1] = req[r].gen}

\* The start instants of a service that a booking not cancelled holds.
HeldStarts(table, serviceId) ==
    {b.startAt : b \in {x \in table : x.serviceId = serviceId /\ x.status # "CANCELLED"}}

\* C1: no two Booking rows of the same service with status other than
\* CANCELLED have the same start instant.
C1_NoDoubleBooking ==
    \A a, b \in bookings :
        (/\ a.serviceId = b.serviceId
         /\ a.startAt = b.startAt
         /\ a.status # "CANCELLED"
         /\ b.status # "CANCELLED") => a = b

ReachedTransaction(r) ==
    req[r].pc = "done" /\ req[r].outcome \in {"Ok", "Conflict", "ServerError"}

\* C2: of two requests for the same service whose session starts intersect,
\* both past validation, with no other writer (no cancellation, no storage
\* error), exactly one is answered Ok and the other Conflict.
C2_ExactlyOneSucceeds ==
    \A r, q \in ReqIds :
        (/\ r # q
         /\ ReachedTransaction(r) /\ ReachedTransaction(q)
         /\ req[r].serviceId = req[q].serviceId
         /\ Range(req[r].startsUtc) \cap Range(req[q].startsUtc) # {}
         /\ req[r].raised = "" /\ req[q].raised = ""
         /\ \A b \in bookings : b.status # "CANCELLED")
        => {req[r].outcome, req[q].outcome} = {"Ok", "Conflict"}

\* C3: a request whose insert met a uniqueness violation of the storage layer
\* is answered Conflict, and none of its rows is stored.
C3_UniqueViolationIsConflict ==
    \A r \in ReqIds :
        (req[r].pc = "done" /\ req[r].raised = "P2002")
        => (req[r].outcome = "Conflict" /\ RowsOf(r) = {})

\* C4: the table holds all N rows of a request answered Ok and no row of any
\* other request, in every state: in flight, rejected, in conflict or failed,
\* a request has no row that another connection can read.
C4_AtomicBatch ==
    \A r \in ReqIds :
        req[r].pc # "idle" =>
            Cardinality(RowsOf(r)) = IF req[r].outcome = "Ok" THEN req[r].sessions ELSE 0

C4_Witness ==
    \E r, q \in ReqIds :
        /\ req[r].outcome = "Ok" /\ req[r].sessions = 2
        /\ req[q].pc = "txCommit" /\ req[q].sessions = 2 /\ req[q].serviceId = req[r].serviceId

\* C10 as stated: for every service, the number of distinct start instants
\* held by bookings not cancelled never decreases from one state to the next.
C10_HeldStartsNeverDecrease ==
    [][\A s \in DOMAIN services :
          Cardinality(HeldStarts(bookings', s)) >= Cardinality(HeldStarts(bookings, s))]_vars

\* C10 amended: that number decreases only in a step that cancels a booking,
\* and then by at most one; no step of the booking routes decreases it.
C10_OnlyCancellationDecreases ==
    [][\A s \in DOMAIN services :
          \/ Cardinality(HeldStarts(bookings', s)) >= Cardinality(HeldStarts(bookings, s))
          \/ /\ \E b \in bookings :
                  /\ b.serviceId = s /\ b.status # "CANCELLED"
                  /\ bookings' = (bookings \ {b}) \cup {[b EXCEPT !.status = "CANCELLED"]}
             /\ Cardinality(HeldStarts(bookings', s)) + 1 = Cardinality(HeldStarts(bookings, s))]_vars

\* Two services hold bookings and a booking has been cancelled.
C10_Witness ==
    /\ HeldStarts(bookings, "singing-15") # {}
    /\ HeldStarts(bookings, "piano-15") # {}
    /\ \E b \in bookings : b.status = "CANCELLED"

\* ---- one request at a time (SpecSeq): while a request or a call is
\* answered and not yet sent, the tables are as it read them.

Minutes(time) == time[1] * 60 + time[2]
AllTimes == (0..23) \X (0..59)

\* The instant of a local date and time of day.
InstantOf(date, time) == At(date, time[1], time[2])

\* A window of the service that contains [start, start + 15 min].
WindowContains(serviceId, start) ==
    \E w \in slots :
        w.serviceId = serviceId /\ w.startAt <= start /\ w.endAt >= start + 15

\* A booking of the service, not cancelled, that starts at the instant.
BookedAt(table, serviceId, start) ==
    \E b \in table : b.serviceId = serviceId /\ b.status # "CANCELLED" /\ b.startAt = start

\* The request asks for one session at a time that the last availability
\* answer for its service and date lists, and no write has followed the answer.
Offered(r) ==
    /\ req[r].offer.fresh
    /\ req[r].sessions = 1
    /\ req[r].time \in Range(req[r].offer.times)

\* C5: a time the availability answer lists, committed at once for one
\* session with no writer in between, is answered Ok with exactly one booking,
\* which starts at the instant of (date, time), whatever the date and the clock.
C5_OfferedTimeCommits ==
    \A r \in ReqIds :
        (req[r].pc = "done" /\ Offered(r) /\ req[r].raised = "")
        => /\ req[r].outcome = "Ok"
           /\ Len(req[r].bookingsOut) = 1
           /\ req[r].bookingsOut[1].startAt = InstantOf(req[r].date, req[r].time)

\* The times 08:00, 08:20, ..., 14:40.
GridTimes ==
    {t \in AllTimes : /\ Minutes(t) >= OpensAt
                      /\ Minutes(t) + 20 <= ClosesAt
                      /\ (Minutes(t) - OpensAt) % 20 = 0}

\* C6: the availability answer lists a time exactly when it is a grid time, a
\* single window of the service contains its session, and no booking of the
\* service that is not cancelled starts at it.
C6_AvailableIff ==
    (av.pc = "done" /\ av.outcome = "Ok") =>
        \A t \in AllTimes :
            (t \in Range(av.times)) <=>
                /\ t \in GridTimes
                /\ WindowContains(av.serviceId, InstantOf(av.date, t))
                /\ ~BookedAt(bookings, av.serviceId, InstantOf(av.date, t))

\* An answer that lists a time, and leaves out a grid time that a window
\* contains because a booking holds it.
C6_Witness ==
    /\ av.pc = "done" /\ av.outcome = "Ok"
    /\ av.times # <<>>
    /\ \E t \in GridTimes :
          /\ WindowContains(av.serviceId, InstantOf(av.date, t))
          /\ BookedAt(bookings, av.serviceId, InstantOf(av.date, t))

\* The rejection classes of the taxonomy.
OutcomeClass(o) ==
    IF o \in {"BeforeOpening", "ExceedsClosing"} THEN "OutsideBusinessHours"
    ELSE IF o \in {"ServiceNotFound", "UnsupportedService"} THEN "ServiceUnavailable"
    ELSE o

\* The first check that fails, in the order: date/time, grid, business hours,
\* past, service, availability, conflict.
FirstFailure(r) ==
    LET q == req[r]
        tod == Minutes(q.time)
        first == InstantOf(q.date, q.time)
        sessionStarts == {first + i * 20 : i \in 0..(q.sessions - 1)}
        others == bookings \ RowsOf(r)
    IN IF ~IsValidDateTime(q.date, q.time) THEN "InvalidInput"
       ELSE IF tod < OpensAt \/ (tod - OpensAt) % 20 # 0 THEN "NotOnGrid"
       ELSE IF tod + (q.sessions - 1) * 20 + 15 > ClosesAt THEN "OutsideBusinessHours"
       ELSE IF first < q.nowRead THEN "InThePast"
       ELSE IF \/ q.serviceId \notin DOMAIN services
               \/ ~services[q.serviceId].isActive
               \/ services[q.serviceId].durationMin # 15 THEN "ServiceUnavailable"
       ELSE IF \E st \in sessionStarts : ~WindowContains(q.serviceId, st)
            THEN "NotWithinAvailability"
       ELSE IF \E st \in sessionStarts : BookedAt(others, q.serviceId, st) THEN "Conflict"
       ELSE "Ok"

\* C7: the answer is the rejection of the first failing check in that order,
\* and Ok only when every check passes.
C7_FirstFailingCheckDecides ==
    \A r \in ReqIds :
        (req[r].pc = "done" /\ req[r].raised = "")
        => OutcomeClass(req[r].outcome) = FirstFailure(r)

\* A request off the grid, in the past and for a missing service: the grid
\* check answers.
C7_Witness ==
    \E r \in ReqIds :
        /\ req[r].pc = "done"
        /\ req[r].outcome = "NotOnGrid"
        /\ IsValidDateTime(req[r].date, req[r].time)
        /\ InstantOf(req[r].date, req[r].time) < req[r].nowRead
        /\ req[r].serviceId \notin DOMAIN services

\* The instant falls on the local calendar date.
OnLocalDate(ts, date) == ToLocal(ts) \div MinPerDay = DayIndex(date)

\* C11: an availability answer for a service and date lists no time at which
\* a booking of the service that is not cancelled starts; after a commit of N
\* sessions at t it therefore omits t, t+20, ..., t+(N-1)*20.
C11_BookedTimesOmitted ==
    (av.pc = "done" /\ av.outcome = "Ok") =>
        \A b \in bookings :
            (/\ b.serviceId = av.serviceId
             /\ b.status # "CANCELLED"
             /\ OnLocalDate(b.startAt, av.date))
            => ToFormatHHmm(b.startAt) \notin Range(av.times)

\* An answer given while both rows of a commit of two sessions at 08:00 are
\* held, for their service and date.
C11_Witness ==
    /\ av.pc = "done" /\ av.outcome = "Ok"
    /\ \E a, b \in bookings :
          /\ a.id[1] = b.id[1] /\ a.id[2] = 1 /\ b.id[2] = 2
          /\ a.status # "CANCELLED" /\ b.status # "CANCELLED"
          /\ a.serviceId = av.serviceId /\ OnLocalDate(a.startAt, av.date)
          /\ ToFormatHHmm(a.startAt) = <<8, 0>> /\ ToFormatHHmm(b.startAt) = <<8, 20>>

\* ------------------------------------------------------------ a day with given windows

\* An AvailabilitySlot row as POST /admin/slots stores it.
Window(serviceId, date, from, to) ==
    [id |-> 1, serviceId |-> serviceId,
     startAt |-> At(date, from[1], from[2]), endAt |-> At(date, to[1], to[2])]

\* The row of a second POST /admin/slots with the same service and bounds.
WindowAgain(serviceId, date, from, to) == [Window(serviceId, date, from, to) EXCEPT !.id = 2]

\* The windows the admin has created before the day's calls: none; one
\* window 09:00-12:00; that window and one of another service; two adjoining
\* windows 08:20-08:50 and 08:50-09:00; the window 09:00-12:00 created twice
\* and a window 11:00-13:00 that overlaps it; a window 07:00-08:00 that ends
\* when the day opens and a window 08:20-08:35 that holds one session exactly.
DaySlotSets ==
    {NoRows}
    \cup {{Window("singing-15", d, <<9, 0>>, <<12, 0>>)} : d \in {MAR28, MAR29}}
    \cup {{Window("singing-15", d, <<9, 0>>, <<12, 0>>),
           Window("piano-15", d, <<8, 0>>, <<15, 0>>)} : d \in {MAR28, MAR29}}
    \cup {{Window("singing-15", d, <<8, 20>>, <<8, 50>>),
           Window("singing-15", d, <<8, 50>>, <<9, 0>>)} : d \in {MAR28, MAR29}}
    \cup {{Window("singing-15", d, <<9, 0>>, <<12, 0>>),
           WindowAgain("singing-15", d, <<9, 0>>, <<12, 0>>),
           Window("singing-15", d, <<11, 0>>, <<13, 0>>)} : d \in {MAR28, MAR29}}
    \cup {{Window("singing-15", d, <<7, 0>>, <<8, 0>>),
           Window("singing-15", d, <<8, 20>>, <<8, 35>>)} : d \in {MAR28, MAR29}}

InitDay ==
    /\ now = ClockValues[1]
    /\ services = SeedServices
    /\ slots \in DaySlotSets
    /\ bookings = NoRows
    /\ req = [r \in ReqIds |-> IdleReq]
    /\ av = IdleAv
    /\ started = 0
    /\ offer = NoOffer
    /\ probe = NoProbe

DayInputs ==
    [serviceId : {"singing-15"}, userId : {"u1"}, date : {MAR28, MAR29},
     time : {<<8, 20>>, <<8, 40>>, <<9, 0>>, <<11, 40>>}, sessions : {1, 2}]

DayAvailInputs == {"singing-15", "piano-15"} \X {MAR28, MAR29}

DayTick == Quiet /\ Tick
DayPostBooking == Quiet /\ \E inp \in DayInputs : ReceiveBooking(1, inp, MaxSeq)
DayGetAvailability == Quiet /\ \E i \in DayAvailInputs : ReceiveAvailability(i[1], i[2])

NextDay ==
    \/ DayTick
    \/ DayPostBooking
    \/ BookingTxCheckInsert
    \/ BookingTxInsertRaises
    \/ BookingTxReadBack
    \/ BookingTxCommit
    \/ BookingRespond
    \/ DayGetAvailability
    \/ AvailLoadSlots
    \/ AvailLoadBooked
    \/ RespondAvailability

SpecDay == InitDay /\ [][NextDay]_vars

\* The windows of the service that lie on the local date.
WindowsOn(serviceId, date) ==
    {w \in slots : /\ w.serviceId = serviceId
                   /\ (OnLocalDate(w.startAt, date) \/ OnLocalDate(w.endAt, date))}

NineToTwelve == [i \in 1..9 |-> <<(540 + (i - 1) * 20) \div 60, (540 + (i - 1) * 20) % 60>>]

\* C12: for an active 15-minute service whose only window on the date is
\* 09:00-12:00 local and which has no booking, the availability answer is
\* exactly 09:00, 09:20, 09:40, 10:00, 10:20, 10:40, 11:00, 11:20, 11:40.
C12_NineToTwelveExample ==
    (/\ av.pc = "done" /\ av.outcome = "Ok"
     /\ WindowsOn(av.serviceId, av.date) = {Window(av.serviceId, av.date, <<9, 0>>, <<12, 0>>)}
     /\ \A b \in bookings : b.serviceId # av.serviceId)
    => av.times = NineToTwelve

\* The example's answer on the day summer time starts, with a window of
\* another service present.
C12_Witness ==
    /\ av.pc = "done" /\ av.outcome = "Ok"
    /\ av.serviceId = "singing-15" /\ av.date = MAR29
    /\ WindowsOn("singing-15", MAR29) = {Window("singing-15", MAR29, <<9, 0>>, <<12, 0>>)}
    /\ WindowsOn("piano-15", MAR29) # {}
    /\ bookings = NoRows
    /\ av.times = NineToTwelve

\* The call in progress repeats the last answered call, and no Booking or
\* AvailabilitySlot write has followed that answer.
RepeatsLastCall ==
    /\ av.pc = "loadBooked"
    /\ offer.fresh
    /\ offer.serviceId = av.serviceId /\ offer.date = av.date

\* C13: a call that repeats the last answered call for the same service and
\* date, with no write in between, is answered with the same ordered list,
\* however far the clock has advanced.
C13_RepeatedCallSameAnswer ==
    [][(RepeatsLastCall /\ av'.pc = "done") => av'.times = offer.times]_vars

\* A repeated call about to be answered, the clock having advanced since the
\* first answer past a time that answer lists.
C13_Witness ==
    /\ RepeatsLastCall
    /\ offer.at < now
    /\ \E t \in Range(offer.times) : At(offer.date, t[1], t[2]) < now

\* The service is missing, inactive, or its session length is not 15 minutes.
Unsupported(serviceId) ==
    \/ serviceId \notin DOMAIN services
    \/ ~services[serviceId].isActive
    \/ services[serviceId].durationMin # 15

\* C14: for a service that is missing, inactive or not of 15 minutes, no
\* request is answered Ok, no Booking row is stored or inserted, and no
\* availability call is answered with a list.
C14_UnsupportedServiceNeverServed ==
    /\ \A r \in ReqIds :
          (req[r].pc # "idle" /\ Unsupported(req[r].serviceId))
          => (req[r].outcome # "Ok" /\ req[r].pending = NoRows /\ RowsOf(r) = {})
    /\ \A b \in bookings : ~Unsupported(b.serviceId)
    /\ (av.pc # "idle" /\ Unsupported(av.serviceId))
          => (av.outcome # "Ok" /\ av.times = NoSeq)

\* A request for the 60-minute service that passed the checks of its start
\* and was rejected because of the service.
C14_Witness ==
    \E r \in ReqIds :
        /\ req[r].pc = "done"
        /\ req[r].serviceId = "hour-60"
        /\ req[r].outcome = "UnsupportedService"
        /\ ValidateStart(req[r].date, req[r].time, req[r].sessions, req[r].nowRead) = "pass"

\* JSON of a JS Date (Date.prototype.toJSON): the UTC calendar day and the UTC
\* time of day of the instant.
ToISOString(ts) ==
    [day |-> ts \div MinPerDay, time |-> <<(ts % MinPerDay) \div 60, ts % 60>>]

\* The "conflicts" member of the 409 answer: the rows of the re-check with
\* their selected fields id and startAt.
ConflictBody(conflicts) ==
    {[id |-> b.id, startAt |-> ToISOString(b.startAt)] : b \in conflicts}

\* C15: a request answered Conflict lists exactly the requested starts that
\* bookings not cancelled hold, as local times of day, and stores no row.
C15_ConflictListsLocalTimes ==
    \A r \in ReqIds :
        (req[r].pc = "done" /\ req[r].outcome = "Conflict")
        => /\ {c.startAt.time : c \in ConflictBody(req[r].conflicts)}
                = {ToFormatHHmm(st) : st \in Range(req[r].startsUtc)
                                          \cap HeldStarts(bookings, req[r].serviceId)}
           /\ RowsOf(r) = {}

\* C16: whatever the application checked, no step stores a booking that is
\* not cancelled at a service and start instant that a stored booking not
\* cancelled already holds.
C16_StorageRefusesDuplicate ==
    [][\A b \in bookings' \ bookings :
          b.status # "CANCELLED"
          => ~\E a \in bookings : /\ a.serviceId = b.serviceId
                                  /\ a.startAt = b.startAt
                                  /\ a.status # "CANCELLED"]_vars

\* C17: a request answered Ok returns exactly the rows it inserted, one per
\* session start in ascending order, each CONFIRMED, whatever cancelled
\* bookings the same user has at those instants.
C17_ReturnsOwnRows ==
    \A r \in ReqIds :
        (req[r].pc = "done" /\ req[r].outcome = "Ok")
        => /\ Len(req[r].bookingsOut) = req[r].sessions
           /\ \A i \in DOMAIN req[r].bookingsOut :
                 /\ req[r].bookingsOut[i].id = <<req[r].gen, i>>
                 /\ req[r].bookingsOut[i].startAt = req[r].startsUtc[i]
                 /\ req[r].bookingsOut[i].status = "CONFIRMED"

\* The rows requests have created and not yet committed.
CreatedRows == UNION {req[r].pending : r \in ReqIds}

\* C18: every row a request creates is CONFIRMED when created, ends 15
\* minutes after its start, starts on the 20-minute grid from 08:00 of its
\* local date, at or after 08:00, and ends at or before 15:00 of that date.
C18_RowsWellFormed ==
    /\ \A b \in CreatedRows : b.status = "CONFIRMED"
    /\ \A b \in bookings \cup CreatedRows :
          /\ b.endAt = b.startAt + 15
          /\ TimeOfDay(ToLocal(b.startAt)) >= OpensAt
          /\ (TimeOfDay(ToLocal(b.startAt)) - OpensAt) % 20 = 0
          /\ ToLocal(b.endAt) \div MinPerDay = ToLocal(b.startAt) \div MinPerDay
          /\ TimeOfDay(ToLocal(b.endAt)) <= ClosesAt

\* A stored booking at the last grid start, 14:40, on the day summer time
\* starts: it ends at 14:55.
C18_Witness ==
    \E b \in bookings :
        /\ OnLocalDate(b.startAt, MAR29)
        /\ ToFormatHHmm(b.startAt) = <<14, 40>>
        /\ ToFormatHHmm(b.endAt) = <<14, 55>>

\* The request is answered, for one session at a valid date and time of day
\* before 08:00.
BeforeOpeningRequest(r) ==
    /\ req[r].pc = "done"
    /\ IsValidDateTime(req[r].date, req[r].time)
    /\ Minutes(req[r].time) < OpensAt
    /\ req[r].sessions = 1

\* C19 as stated: such a request for a start not in the past is rejected as
\* outside business hours (before opening) or as in the past.
C19_BeforeOpeningOutsideHours ==
    \A r \in ReqIds :
        (BeforeOpeningRequest(r)
         /\ InstantOf(req[r].date, req[r].time) >= req[r].nowRead)
        => req[r].outcome \in {"BeforeOpening", "InThePast"}

\* C19 amended: such a request is rejected as NotOnGrid, in the future or in
\* the past, and stores nothing.
C19_BeforeOpeningNotOnGrid ==
    \A r \in ReqIds :
        BeforeOpeningRequest(r) => (req[r].outcome = "NotOnGrid" /\ RowsOf(r) = {})

\* A request for 07:40 on a date after the clock's, for an existing service.
C19_Witness ==
    \E r \in ReqIds :
        /\ BeforeOpeningRequest(r)
        /\ req[r].time = <<7, 40>>
        /\ InstantOf(req[r].date, req[r].time) > req[r].nowRead
        /\ req[r].serviceId = "singing-15"

\* The start instants of the sessions a request asks for.
RequestedStarts(r) ==
    {InstantOf(req[r].date, req[r].time) + i * 20 : i \in 0..(req[r].sessions - 1)}

\* C20: a request is rejected as NotWithinAvailability exactly when the
\* checks of its start and of its service pass and some session [start,
\* start + 15 min] lies in no single window of the service; it then stores
\* nothing.  Two adjoining windows that only together hold a session do not
\* cover it.
C20_NotWithinAvailabilityIff ==
    \A r \in ReqIds :
        (req[r].pc = "done" /\ req[r].raised = "")
        => /\ (req[r].outcome = "NotWithinAvailability")
                <=> /\ ValidateStart(req[r].date, req[r].time, req[r].sessions,
                                     req[r].nowRead) = "pass"
                    /\ ~Unsupported(req[r].serviceId)
                    /\ \E st \in RequestedStarts(r) : ~WindowContains(req[r].serviceId, st)
           /\ (req[r].outcome = "NotWithinAvailability")
                => (RowsOf(r) = {} /\ req[r].pending = NoRows)

\* A rejected request with a session that two adjoining windows hold only
\* together.
C20_Witness ==
    \E r \in ReqIds :
        /\ req[r].pc = "done" /\ req[r].outcome = "NotWithinAvailability"
        /\ \E st \in RequestedStarts(r) : \E w1, w2 \in slots :
              /\ w1.serviceId = req[r].serviceId /\ w2.serviceId = req[r].serviceId
              /\ w1.endAt = w2.startAt
              /\ w1.startAt <= st /\ st < w1.endAt
              /\ w1.endAt < st + 15 /\ st + 15 <= w2.endAt

\* The body of the 400 answer of the coverage loop: a message, the same for
\* every request and every uncovered session.
NotWithinAvailabilityBody ==
    [message |-> "Selected time is not within admin availability for this service"]

\* The earliest session start of the request that no single window of the
\* service contains.
EarliestUncovered(r) ==
    LET uncovered == {st \in RequestedStarts(r) : ~WindowContains(req[r].serviceId, st)}
    IN CHOOSE st \in uncovered : \A other \in uncovered : st <= other

\* C21: the answer of a request rejected as NotWithinAvailability names the
\* earliest requested session start that no window covers: a member of the
\* answer besides the message holds that start, as an instant or as its local
\* time of day.
C21_RejectionNamesFirstUncovered ==
    \A r \in ReqIds :
        (req[r].pc = "done" /\ req[r].outcome = "NotWithinAvailability")
        => \E f \in DOMAIN NotWithinAvailabilityBody \ {"message"} :
              \/ NotWithinAvailabilityBody[f] = EarliestUncovered(r)
              \/ NotWithinAvailabilityBody[f] = ToFormatHHmm(EarliestUncovered(r))

\* A cancelled booking of the service starts at the instant.
CancelledAt(table, serviceId, start) ==
    \E b \in table : b.serviceId = serviceId /\ b.status = "CANCELLED" /\ b.startAt = start

\* C22: a cancelled booking does not block its start.  Where a booking of the
\* service was cancelled and no booking of the service that is not cancelled
\* starts, the availability answer lists the time again if a window contains
\* its session, and a request whose session starts are all free of bookings
\* not cancelled is not answered Conflict.
C22_CancelledNeverBlocks ==
    /\ (av.pc = "done" /\ av.outcome = "Ok") =>
          \A t \in GridTimes :
              (/\ CancelledAt(bookings, av.serviceId, InstantOf(av.date, t))
               /\ ~BookedAt(bookings, av.serviceId, InstantOf(av.date, t))
               /\ WindowContains(av.serviceId, InstantOf(av.date, t)))
              => t \in Range(av.times)
    /\ \A r \in ReqIds :
          (/\ req[r].pc = "done"
           /\ \E st \in Range(req[r].startsUtc) : CancelledAt(bookings, req[r].serviceId, st)
           /\ \A st \in Range(req[r].startsUtc) :
                 ~BookedAt(bookings \ RowsOf(r), req[r].serviceId, st))
          => req[r].outcome # "Conflict"

\* A start was booked and the booking cancelled; the availability answer that
\* followed lists its time; the request for it that followed is answered Ok.
C22_Witness ==
    \E r \in ReqIds :
        /\ req[r].pc = "done" /\ req[r].outcome = "Ok"
        /\ Offered(r)
        /\ CancelledAt(bookings, req[r].serviceId, req[r].startsUtc[1])

\* C23: no step of an availability call (received, slots read, bookings read
\* and answered, answer sent), on the answer with a list and on every
\* rejection, changes the Service, AvailabilitySlot or Booking table.
C23_AvailabilityReadOnly ==
    [][av'.pc # av.pc =>
          (services' = services /\ slots' = slots /\ bookings' = bookings)]_vars

\* An availability call answered with a list while the tables hold a window,
\* a booking and a cancelled booking.
C23_Witness ==
    /\ av.pc = "done" /\ av.outcome = "Ok" /\ av.times # NoSeq
    /\ slots # NoRows
    /\ \E b \in bookings : b.status = "CONFIRMED"
    /\ Cancelled # {}

\* C24: the list of an availability answer is strictly ascending by time of
\* day, hence without duplicates, whatever windows (overlapping, created
\* twice) and bookings the tables hold.
C24_TimesStrictlyAscending ==
    (av.pc = "done" /\ av.outcome = "Ok") =>
        \A i, j \in DOMAIN av.times : i < j => Minutes(av.times[i]) < Minutes(av.times[j])

\* An answer with several times, one of them inside three windows of the
\* service at once (a window, its duplicate and an overlapping one), another
\* time of the day being booked.
C24_Witness ==
    /\ av.pc = "done" /\ av.outcome = "Ok"
    /\ Len(av.times) > 2
    /\ \E t \in Range(av.times) :
          Cardinality({w \in slots : /\ w.serviceId = av.serviceId
                                     /\ w.startAt <= InstantOf(av.date, t)
                                     /\ w.endAt >= InstantOf(av.date, t) + 15}) = 3
    /\ \E b \in bookings : /\ b.serviceId = av.serviceId /\ b.status # "CANCELLED"
                           /\ OnLocalDate(b.startAt, av.date)

\* The time of day <<hour, minute>> that is m minutes after midnight.
HHmm(m) == <<m \div 60, m % 60>>

\* The times of day of the sessions a request asks for: t, t+20, ...
RequestedTimes(r) ==
    {HHmm(Minutes(req[r].time) + i * 20) : i \in 0..(req[r].sessions - 1)}

\* The request's date is after the local date of the clock it read.
FutureDate(r) == DayIndex(req[r].date) > ToLocal(req[r].nowRead) \div MinPerDay

\* C25: a request for a future date that follows an availability answer for
\* its service and date, no write and no storage failure in between, is
\* answered Ok exactly when that answer lists every one of its session times
\* t, t+20, ..., t+(N-1)*20.
C25_ResolverCommitterAgree ==
    \A r \in ReqIds :
        (/\ req[r].pc = "done" /\ req[r].raised = ""
         /\ req[r].offer.fresh
         /\ FutureDate(r))
        => (req[r].outcome = "Ok"
               <=> /\ req[r].time \in Range(req[r].offer.times)
                   /\ RequestedTimes(r) \subseteq Range(req[r].offer.times))

\* A request for two sessions on a future date, both listed, answered Ok.
C25_Witness ==
    \E r \in ReqIds :
        /\ req[r].pc = "done" /\ req[r].outcome = "Ok"
        /\ req[r].offer.fresh /\ FutureDate(r)
        /\ req[r].sessions = 2
        /\ RequestedTimes(r) \subseteq Range(req[r].offer.times)

\* The slots the request's query fetches: those of its service overlapping
\* the span from its first session start to its last session end.
FetchedForRequest(r) ==
    SlotsOverlapping(slots, req[r].serviceId, req[r].startsUtc[1],
                     req[r].startsUtc[Len(req[r].startsUtc)] + SESSION_MIN)

\* C26: fetching only the windows that overlap the queried span changes no
\* coverage decision.  In an availability call every grid time of the day is
\* covered by the fetched slots exactly when some window of the service
\* contains its session; in a request every session is covered by the fetched
\* slots exactly when some window of the service contains it.
C26_FetchRestrictionKeepsCoverage ==
    /\ (av.pc = "loadBooked" \/ (av.pc = "done" /\ av.outcome = "Ok")) =>
          \A t \in GridTimes :
              CandidateCovered(av.slotRows, InstantOf(av.date, t), InstantOf(av.date, t) + 15)
                  <=> WindowContains(av.serviceId, InstantOf(av.date, t))
    /\ \A r \in ReqIds :
          req[r].startsUtc # NoSeq =>
              \A st \in Range(req[r].startsUtc) :
                  isSessionCoveredBySlots(st, st + 15, FetchedForRequest(r))
                      <=> WindowContains(req[r].serviceId, st)

\* An availability answer with a time, given while a window of the service
\* that ends at 08:00 of the day, where the queried span begins, was not
\* fetched.
C26_Witness ==
    /\ av.pc = "done" /\ av.outcome = "Ok" /\ av.times # NoSeq
    /\ \E w \in slots : /\ w.serviceId = av.serviceId
                         /\ w \notin av.slotRows
                         /\ w.endAt = av.dayStartUtc

\* Two requests that cannot collide: different services, or no session start
\* in common.
Disjoint(r, q) ==
    \/ req[r].serviceId # req[q].serviceId
    \/ Range(req[r].startsUtc) \cap Range(req[q].startsUtc) = {}

\* C27: of two requests handled concurrently, both past validation and
\* coverage, that target different services or have no session start in
\* common, neither is answered Conflict: with no booking of a third request
\* in the table and no storage error, both are answered Ok in every
\* interleaving.
C27_NoFalseConflict ==
    \A r, q \in ReqIds :
        (/\ r # q
         /\ ReachedTransaction(r) /\ ReachedTransaction(q)
         /\ Disjoint(r, q)
         /\ req[r].raised = "" /\ req[q].raised = ""
         /\ \A b \in bookings : b.id[1] \in {req[r].gen, req[q].gen})
        => (req[r].outcome = "Ok" /\ req[q].outcome = "Ok")

\* Two requests of the same service for 08:00 and for 08:20, both answered Ok.
C27_Witness ==
    \E r, q \in ReqIds :
        /\ r # q
        /\ req[r].pc = "done" /\ req[r].outcome = "Ok"
        /\ req[q].pc = "done" /\ req[q].outcome = "Ok"
        /\ req[r].serviceId = req[q].serviceId
        /\ Range(req[r].startsUtc) \cap Range(req[q].startsUtc) = {}

\* C28: every Booking row, confirmed or cancelled, lies within one window of
\* its service: some AvailabilitySlot row of the service starts at or before
\* the booking's start and ends at or after its end.  Windows are created and
\* never changed or deleted.
C28_BookingsWithinWindows ==
    \A b \in bookings :
        \E w \in slots :
            w.serviceId = b.serviceId /\ w.startAt <= b.startAt /\ w.endAt >= b.endAt

\* Bookings of two services are stored, one of them cancelled, each service
\* having its own window.
C28_Witness ==
    /\ \E b \in bookings : b.serviceId = "singing-15" /\ b.status = "CONFIRMED"
    /\ \E b \in bookings : b.serviceId = "piano-15"
    /\ Cancelled # {}
    /\ Cardinality(slots) = 2

====
